---- MODULE Spec2Model ----
(***************************************************************************)
(* The device API of quote0-api-demo: the route handlers GET, POST, PUT    *)
(* and DELETE of src/app/dot/api/devices/route.ts over a Cloudflare KV     *)
(* namespace, with the zod schemas of src/lib/schemas.ts.                  *)
(*                                                                         *)
(* A request is handled in one step.  The state is the KV namespace, the   *)
(* wall clock, the form in which the KV client reports a missing key, and  *)
(* the last request with the response it got and the Gateway calls and     *)
(* the notification call it made.                                          *)
(***************************************************************************)
EXTENDS Integers, Sequences, FiniteSets, TLC

(***************************************************************************)
(* Bounds.                                                                 *)
(***************************************************************************)
\* The wall clock runs over 0..MaxClock.
MaxClock == 1

(***************************************************************************)
(* Strings.  TLA+ strings stand for themselves; Undefined is the value of  *)
(* a property that an object does not have, and of a missing query         *)
(* parameter (searchParams.get gives null).                                *)
(***************************************************************************)
Undefined == "<undefined>"

RECURSIVE Rep(_, _)
Rep(s, n) == IF n = 0 THEN "" ELSE s \o Rep(s, n - 1)

Digits == {"0", "1", "2", "3", "4", "5", "6", "7", "8", "9"}
UpperHex == Digits \cup {"A", "B", "C", "D", "E", "F"}
Upper ==
    {"A", "B", "C", "D", "E", "F", "G", "H", "I", "J", "K", "L", "M",
     "N", "O", "P", "Q", "R", "S", "T", "U", "V", "W", "X", "Y", "Z"}
Lower ==
    {"a", "b", "c", "d", "e", "f", "g", "h", "i", "j", "k", "l", "m",
     "n", "o", "p", "q", "r", "s", "t", "u", "v", "w", "x", "y", "z"}
AlphaNum == Upper \cup Lower \cup Digits

\* Three device ids, and one string that is no device id (lower case).
IdA == "AABBCCDDEEFF"
IdB == "001122334455"
IdC == "FFEEDDCCBBAA"
IdBad == "aabbccddeeff"

\* The keys of the namespace that requests name, in the order keys.list
\* reports them (lexicographic).
KeyOrder == <<IdB, IdA, IdC>>
StoreKeys == {KeyOrder[i] : i \in 1..Len(KeyOrder)}

\* Two API keys of the required form, and one that is too short.
ApiKeyA == "dot_app_" \o Rep("A1b2", 16)
ApiKeyB == "dot_app_" \o Rep("Zz09", 16)
ApiKeyBad == "dot_app_" \o Rep("A1b2", 15)

(***************************************************************************)
(* Times.  An ISO-8601 timestamp is modelled by the instant it names, a    *)
(* number >= 0; NoTime is a timestamp property that is not there, BadTime  *)
(* a string that is no ISO-8601 datetime.                                  *)
(***************************************************************************)
NoTime == -1
BadTime == -2

\* JavaScript truthiness of a timestamp property: undefined is falsy, any
\* non-empty string is truthy.
TimeTruthy(t) == t # NoTime

(***************************************************************************)
(* JSON objects.  A device object has the seven properties of DeviceSchema;*)
(* a property that is absent holds Undefined (NoContent, NoTime).          *)
(***************************************************************************)
MkContent(title, message) ==
    [title |-> title, message |-> message, signature |-> Undefined, link |-> Undefined]

\* The content property is not there.
NoContent == [absent |-> TRUE]
\* content: {}
ContentEmpty == MkContent(Undefined, Undefined)
ContentHello == MkContent("Hi", "hello")
\* A title of 101 characters.
ContentBad == MkContent(Rep("x", 101), Undefined)

MkDevice(owner, ownerKey, deviceId, name, content, createdAt, updatedAt) ==
    [owner |-> owner, ownerKey |-> ownerKey, deviceId |-> deviceId, name |-> name,
     content |-> content, createdAt |-> createdAt, updatedAt |-> updatedAt]

\* The object {}.
EmptyObj == MkDevice(Undefined, Undefined, Undefined, Undefined, NoContent, NoTime, NoTime)

(***************************************************************************)
(* The schemas (zod).                                                      *)
(***************************************************************************)
\* z.string().max(n).optional()
OptStringMax(s, n) == s = Undefined \/ Len(s) <= n

\* DeviceContentSchema
ContentValid(c) ==
    /\ c # NoContent
    /\ OptStringMax(c.title, 100)
    /\ OptStringMax(c.message, 500)
    /\ OptStringMax(c.signature, 50)

\* /^dot_app_[A-Za-z0-9]{64}$/ on the characters of s
ApiKeyRegex(s) ==
    /\ Len(s) = 72
    /\ SubSeq(s, 1, 8) = "dot_app_"
    /\ \A i \in 9..72 : SubSeq(s, i, i) \in AlphaNum

\* /^[A-F0-9]{12}$/ on the characters of s
DeviceIdRegex(s) ==
    /\ Len(s) = 12
    /\ \A i \in 1..12 : SubSeq(s, i, i) \in UpperHex

\* The strings of the model that match each pattern (the patterns are
\* matched once per string, not once per request).
ApiKeysMatching == {s \in {ApiKeyA, ApiKeyB, ApiKeyBad, ""} : ApiKeyRegex(s)}
DeviceIdsMatching == {s \in {IdA, IdB, IdC, IdBad, ""} : DeviceIdRegex(s)}

\* ownerKey: z.string().regex(...)
MatchesApiKey(s) == s \in ApiKeysMatching

\* deviceId: z.string().regex(...)
MatchesDeviceId(s) == s \in DeviceIdsMatching

\* z.string().datetime().optional()
OptDatetime(t) == t = NoTime \/ t >= 0

\* DeviceSchema.parse(d) does not throw.
DeviceValid(d) ==
    /\ d.owner # Undefined /\ Len(d.owner) >= 1 /\ Len(d.owner) <= 30
    /\ MatchesApiKey(d.ownerKey)
    /\ MatchesDeviceId(d.deviceId)
    /\ d.name # Undefined /\ Len(d.name) >= 1 /\ Len(d.name) <= 50
    /\ ContentValid(d.content)
    /\ OptDatetime(d.createdAt)
    /\ OptDatetime(d.updatedAt)

\* validateDevice(data) for valid data: the parsed object (the known
\* properties; the objects of this model have no others).
validateDevice(d) == d

\* normalizeDeviceData(rawData) at the instant now.
normalizeDeviceData(rawData, now) ==
    [rawData EXCEPT !.createdAt = IF TimeTruthy(rawData.createdAt)
                                  THEN rawData.createdAt ELSE now,
                    !.updatedAt = now]

(***************************************************************************)
(* Texts: the values of the namespace.  A text is empty, the               *)
(* serialisation of an object, or not JSON at all; a key with no value is  *)
(* Absent.                                                                 *)
(***************************************************************************)
Absent == [kind |-> "absent", obj |-> EmptyObj]
EmptyText == [kind |-> "empty", obj |-> EmptyObj]
GarbageText == [kind |-> "garbage", obj |-> EmptyObj]

\* JSON.stringify(obj)
JsonStringify(obj) == [kind |-> "json", obj |-> obj]
\* JSON.parse(text) does not throw (it throws on "" and on garbage).
JsonParses(text) == text.kind = "json"
\* JSON.parse(text) where it does not throw.
JsonParse(text) == text.obj

\* if (text): the empty string is falsy.
TextTruthy(text) == text.kind # "empty"

\* An object that parses as JSON and fails DeviceSchema: no name, no
\* timestamps.
LegacyObj == MkDevice("alice", ApiKeyA, IdA, Undefined, ContentEmpty, NoTime, NoTime)

\* What a key of the namespace may hold before the first request.
LegacyTexts == {Absent, EmptyText, GarbageText, JsonStringify(LegacyObj)}

(***************************************************************************)
(* State.                                                                  *)
(***************************************************************************)
VARIABLES
    store,      \* the KV namespace: key -> text (Absent: the key has no value)
    clock,      \* the instant new Date() gives
    absentAs,   \* how values.get reports a key with no value: "empty" (a
                \* falsy result) or "error" (it throws a not-found error)
    last,       \* the request handled by the last step (NoRequest when the
                \* step handled none), its response and the calls it made
    asked,      \* what the last step was given: the request's body or query
                \* and the Gateway's behaviour towards it
    procs,      \* the requests in progress that run concurrently: for each,
                \* the await it has reached and what it holds
    writer,     \* the request in progress whose put or delete of WriteKey
                \* reached the store last ("none" before the first)
    ui          \* the state of the device list hook of the console and the
                \* fetches it has in flight

vars == <<store, clock, absentAs, last, asked, procs, writer, ui>>

(***************************************************************************)
(* The Key-Value Gateway: the calls on cf.kv.namespaces.  Each call either *)
(* reaches the store ("ok") or fails in transport ("fail": it throws).     *)
(***************************************************************************)
Outcomes == {"ok", "fail"}

\* values.get(namespaceId, key): r is "value" (a response whose text is
\* text), "null" (a falsy result), "notfound" (it threw an error whose
\* message contains "not found") or "error" (it threw another error).
KvGet(st, key, outcome) ==
    IF outcome = "fail" THEN [r |-> "error", text |-> Absent]
    ELSE IF st[key].kind = "absent"
    THEN [r |-> IF absentAs = "empty" THEN "null" ELSE "notfound", text |-> Absent]
    ELSE [r |-> "value", text |-> st[key]]

\* A store that keeps the value a key already has.
KvPutIfAbsent(st, key, text) ==
    IF st[key].kind \in {"absent", "empty"} THEN [st EXCEPT ![key] = text] ELSE st

\* values.update(namespaceId, key, {value}) that reached the store.
KvPut(st, key, text) == [st EXCEPT ![key] = text]

\* values.delete(namespaceId, key) that reached the store.
KvDelete(st, key) == [st EXCEPT ![key] = Absent]

\* The number of keys keys.list reports in one page (1000 at Cloudflare;
\* here one less than the keys of the namespace).
PageLimit == 2

\* keys.list(namespaceId).result, the call passing neither limit nor cursor:
\* the first page of the keys that have a value, in order.
KvList(st) ==
    LET keys == SelectSeq(KeyOrder, LAMBDA k : st[k].kind # "absent")
    IN  IF Len(keys) <= PageLimit THEN keys ELSE SubSeq(keys, 1, PageLimit)

(***************************************************************************)
(* Request bodies.  A body is a JSON object; key, content, value and ttl   *)
(* are the properties the request schemas read (Missing: not there).       *)
(***************************************************************************)
Missing == [absent |-> TRUE]

\* ttl: z.number().min(60).max(31536000).optional(); NoTtl is a ttl that is
\* not there.
NoTtl == -1
MinTtl == 60
MaxTtl == 31536000

MkBodyTtl(key, content, value, ttl) ==
    [key |-> key, content |-> content, value |-> value, ttl |-> ttl]

MkBody(key, content, value) == MkBodyTtl(key, content, value, NoTtl)

\* No body: the request of a GET or a DELETE.
NoBody == MkBody(Undefined, Missing, Missing)

(***************************************************************************)
(* Responses.                                                              *)
(***************************************************************************)
\* The record of a request: what was asked (op, key, owner, ownerKey, the
\* body and its shape), what was answered (status, 0 while there is no
\* response, type, error, details, device, devices, count, deletedKeys; for
\* a PUT device is the device written) and what happened on the way:
\* asContent (PUT parsed the body as a content-only update), path (the
\* branch of PUT that made the data written), got (what the handler's last
\* read of the one key gave, see KvGet), gotOwner (the owner and ownerKey of
\* the object that read gave), getFail (a read of the one key
\* failed in transport), listOk, readFail, delFail (the Gateway during
\* a scan),
\* putIssued, putOk, delIssued (the calls made), putTtl (the expiration_ttl
\* given to the put, NoTtl when none) and notify (the outcome of the
\* notification call, "none" when none was made).
\* existing.owner, existing.ownerKey of what a read of the one key gave.
OwnerOf(got) ==
    IF got.r = "value" /\ JsonParses(got.text)
    THEN <<JsonParse(got.text).owner, JsonParse(got.text).ownerKey>>
    ELSE <<Undefined, Undefined>>

NoRequest ==
    [op |-> "none", key |-> Undefined, owner |-> Undefined, ownerKey |-> Undefined,
     shape |-> "none", asContent |-> FALSE, path |-> "none", getFail |-> FALSE,
     status |-> 0, type |-> Undefined, error |-> Undefined, details |-> "none",
     device |-> EmptyObj, devices |-> <<>>, count |-> 0, deletedKeys |-> <<>>,
     listOk |-> TRUE, readFail |-> {}, delFail |-> {},
     putIssued |-> FALSE, putOk |-> FALSE, delIssued |-> FALSE,
     putTtl |-> NoTtl, body |-> NoBody, got |-> "none",
     gotOwner |-> <<Undefined, Undefined>>, notify |-> "none"]

Request(op, key) == [NoRequest EXCEPT !.op = op, !.key = key]

\* handleError(error, operation): a ZodError gives 400 with the list of
\* {path, message}; any other error gives 500 with the error's message.
handleError(req, errorKind) ==
    IF errorKind = "ZodError"
    THEN [req EXCEPT !.status = 400, !.error = "validation", !.details = "list"]
    ELSE [req EXCEPT !.status = 500, !.error = "failed", !.details = "message"]

\* NextResponse.json({error}, {status})
ErrorResponse(req, status, error) == [req EXCEPT !.status = status, !.error = error]

\* createSuccessResponse(data, type)
createSuccessResponse(req, type) == [req EXCEPT !.status = 200, !.type = type]

(***************************************************************************)
(* GET.                                                                    *)
(***************************************************************************)
\* if (p): a missing parameter (null) and the empty string are falsy.
ParamTruthy(p) == p # Undefined /\ p # ""

\* A filter that forgets the ownerKey.
OwnerMatchesOwnerOnly(device, owner, ownerKey) == device.owner = owner

\* validatedDevice.owner === owner && validatedDevice.ownerKey === ownerKey
OwnerMatches(device, owner, ownerKey) ==
    device.owner = owner /\ device.ownerKey = ownerKey

\* One round of a scan's loop, up to validateDevice: the validated device
\* of key item, or nothing when the read throws, the result or its text is
\* falsy, the text is no JSON or the object fails the schema.
ScanItem(st, item, readFail) ==
    LET got == KvGet(st, item, IF item \in readFail THEN "fail" ELSE "ok")
    IN  IF got.r # "value" THEN [ok |-> FALSE, device |-> EmptyObj]
        ELSE IF ~TextTruthy(got.text) THEN [ok |-> FALSE, device |-> EmptyObj]
        ELSE IF ~JsonParses(got.text) THEN [ok |-> FALSE, device |-> EmptyObj]
        ELSE IF ~DeviceValid(JsonParse(got.text)) THEN [ok |-> FALSE, device |-> EmptyObj]
        ELSE [ok |-> TRUE, device |-> validateDevice(JsonParse(got.text))]

\* The loop of "all devices" over keys[i..].
RECURSIVE ScanAll(_, _, _, _)
ScanAll(st, keys, i, readFail) ==
    IF i > Len(keys) THEN <<>>
    ELSE LET it == ScanItem(st, keys[i], readFail)
             rest == ScanAll(st, keys, i + 1, readFail)
         IN  IF it.ok THEN <<it.device>> \o rest ELSE rest

\* The loop of "devices by owner" over keys[i..].
RECURSIVE ScanByOwner(_, _, _, _, _, _)
ScanByOwner(st, keys, i, readFail, owner, ownerKey) ==
    IF i > Len(keys) THEN <<>>
    ELSE LET it == ScanItem(st, keys[i], readFail)
             rest == ScanByOwner(st, keys, i + 1, readFail, owner, ownerKey)
         IN  IF it.ok /\ OwnerMatches(it.device, owner, ownerKey)
             THEN <<it.device>> \o rest ELSE rest

\* GET ?owner=O&ownerKey=K
GetByOwner(st, owner, ownerKey, listOk, readFail) ==
    LET req == [Request("GET_BY_OWNER", Undefined) EXCEPT
                    !.owner = owner, !.ownerKey = ownerKey,
                    !.listOk = listOk, !.readFail = readFail]
        devices == ScanByOwner(st, KvList(st), 1, readFail, owner, ownerKey)
    IN  IF ~listOk THEN handleError(req, "TransportError")
        ELSE [createSuccessResponse(req, "devices_by_owner") EXCEPT
                  !.devices = devices, !.count = Len(devices)]

\* GET with no key
GetAll(st, listOk, readFail) ==
    LET req == [Request("GET_ALL", Undefined) EXCEPT
                    !.listOk = listOk, !.readFail = readFail]
        devices == ScanAll(st, KvList(st), 1, readFail)
    IN  IF ~listOk THEN handleError(req, "TransportError")
        ELSE [createSuccessResponse(req, "all_devices") EXCEPT
                  !.devices = devices, !.count = Len(devices)]

\* getDevicesServerSide(): the devices, and whether an error is reported.
getDevicesServerSide(st, listOk, readFail) ==
    IF ~listOk THEN [devices |-> <<>>, error |-> TRUE]
    ELSE [devices |-> ScanAll(st, KvList(st), 1, readFail), error |-> FALSE]

\* GET ?key=K
GetOne(st, key, outcome) ==
    LET got == KvGet(st, key, outcome)
        req == [Request("GET_ONE", key) EXCEPT
                    !.getFail = outcome = "fail", !.got = got.r,
                    !.gotOwner = OwnerOf(got)]
    IN  IF got.r = "null" THEN ErrorResponse(req, 404, "not_found")
        ELSE IF got.r = "notfound" THEN ErrorResponse(req, 404, "not_found")
        ELSE IF got.r = "error" THEN handleError(req, "TransportError")
        ELSE IF ~JsonParses(got.text) THEN handleError(req, "SyntaxError")
        ELSE IF ~DeviceValid(JsonParse(got.text)) THEN handleError(req, "ZodError")
        ELSE [createSuccessResponse(req, "device_details") EXCEPT
                  !.device = validateDevice(JsonParse(got.text))]

\* A dispatch that looks at the key first.
GetHandlerKeyFirst(st, key, owner, ownerKey, listOk, readFail, outcome) ==
    IF ParamTruthy(key) THEN GetOne(st, key, outcome)
    ELSE IF ParamTruthy(owner) /\ ParamTruthy(ownerKey)
    THEN GetByOwner(st, owner, ownerKey, listOk, readFail)
    ELSE GetAll(st, listOk, readFail)

\* export async function GET(request)
GetHandler(st, key, owner, ownerKey, listOk, readFail, outcome) ==
    IF ParamTruthy(owner) /\ ParamTruthy(ownerKey)
    THEN GetByOwner(st, owner, ownerKey, listOk, readFail)
    ELSE IF ~ParamTruthy(key) THEN GetAll(st, listOk, readFail)
    ELSE GetOne(st, key, outcome)

(***************************************************************************)
(* The request schemas.                                                    *)
(***************************************************************************)
\* A ttl that accepts every number from the minimum on.
TtlValidMinOnly(ttl) == ttl = NoTtl \/ ttl >= MinTtl

\* z.number().min(60).max(31536000).optional() on the body's ttl
TtlValid(ttl) == ttl = NoTtl \/ (ttl >= MinTtl /\ ttl <= MaxTtl)

\* if (ttl): undefined and 0 are falsy.
TtlTruthy(ttl) == ttl # NoTtl /\ ttl # 0

\* z.string().min(1) on the body's key
KeyValid(key) == key # Undefined /\ Len(key) >= 1

\* CreateDeviceRequestSchema.parse(body) does not throw.
CreateDeviceRequestValid(body) ==
    /\ KeyValid(body.key)
    /\ body.value # Missing
    /\ DeviceValid(body.value)
    /\ TtlValid(body.ttl)

\* UpdateDeviceRequestSchema = CreateDeviceRequestSchema
UpdateDeviceRequestValid(body) == CreateDeviceRequestValid(body)

\* UpdateDeviceContentRequestSchema.parse(body) does not throw.
UpdateDeviceContentRequestValid(body) ==
    /\ KeyValid(body.key)
    /\ body.content # Missing
    /\ ContentValid(body.content)

\* The shape of a body, for the record of the request.
BodyShape(body) ==
    IF body.content # Missing /\ body.value # Missing THEN "both"
    ELSE IF body.content # Missing THEN "content"
    ELSE IF body.value # Missing THEN "value"
    ELSE "neither"

(***************************************************************************)
(* POST.                                                                   *)
(***************************************************************************)
\* The existence check of POST: the read gave a result whose text is
\* non-empty.  A read that throws is taken for "no such device".
CreateConflict(got) == got.r = "value" /\ TextTruthy(got.text)

\* export async function POST(request), at the instant now: the store
\* afterwards and the record of the request.
PostHandler(st, body, getOutcome, putOutcome, now) ==
    LET req == [Request("POST", body.key) EXCEPT
                    !.shape = BodyShape(body), !.body = body]
    IN  IF ~CreateDeviceRequestValid(body)
        THEN [st |-> st, resp |-> handleError(req, "ZodError")]
        ELSE
        LET got == KvGet(st, body.key, getOutcome)
            normalizedDevice == normalizeDeviceData(body.value, now)
            read == [req EXCEPT !.getFail = getOutcome = "fail", !.got = got.r,
                            !.gotOwner = OwnerOf(got)]
            put == [read EXCEPT !.putIssued = TRUE,
                                !.putTtl = IF TtlTruthy(body.ttl) THEN body.ttl
                                           ELSE NoTtl]
        IN  IF CreateConflict(got)
            THEN [st |-> st, resp |-> ErrorResponse(read, 409, "conflict")]
            ELSE IF putOutcome = "fail"
            THEN [st |-> st, resp |-> handleError(put, "TransportError")]
            ELSE [st |-> KvPut(st, body.key, JsonStringify(normalizedDevice)),
                  resp |-> [createSuccessResponse(put, "device_created") EXCEPT
                                !.putOk = TRUE, !.device = normalizedDevice]]

(***************************************************************************)
(* PUT.                                                                    *)
(***************************************************************************)
\* A merge that stamps createdAt anew.
ContentMergeStampsCreatedAt(got, content, now) ==
    IF got.r \in {"error", "notfound"} THEN [r |-> "thrown", data |-> EmptyObj]
    ELSE IF got.r = "null" THEN [r |-> "notfound", data |-> EmptyObj]
    ELSE IF ~TextTruthy(got.text) THEN [r |-> "notfound", data |-> EmptyObj]
    ELSE IF ~JsonParses(got.text) THEN [r |-> "thrown", data |-> EmptyObj]
    ELSE [r |-> "merged",
          data |-> [JsonParse(got.text) EXCEPT
                        !.content = content, !.createdAt = now, !.updatedAt = now]]

\* The first try block of PUT, entered with a body of the content-only
\* shape: "notfound" (404 answered), "merged" (data is the existing object
\* with the new content and updatedAt) or "thrown" (the read or JSON.parse
\* threw: the bare catch takes over).
ContentMerge(got, content, now) ==
    IF got.r \in {"error", "notfound"} THEN [r |-> "thrown", data |-> EmptyObj]
    ELSE IF got.r = "null" THEN [r |-> "notfound", data |-> EmptyObj]
    ELSE IF ~TextTruthy(got.text) THEN [r |-> "notfound", data |-> EmptyObj]
    ELSE IF ~JsonParses(got.text) THEN [r |-> "thrown", data |-> EmptyObj]
    ELSE [r |-> "merged",
          data |-> [JsonParse(got.text) EXCEPT !.content = content, !.updatedAt = now]]

\* A merge that stamps createdAt where there is no existing object.
FullMergeStampsCreatedAt(got, value, now) ==
    [value EXCEPT
         !.createdAt = IF /\ got.r = "value"
                          /\ JsonParses(got.text)
                          /\ TimeTruthy(JsonParse(got.text).createdAt)
                       THEN JsonParse(got.text).createdAt ELSE now,
         !.updatedAt = now]

\* The merge of the full update: the new value, with the createdAt of the
\* existing object when the read gave a result whose text parses.
FullMerge(got, value, now) ==
    IF got.r = "value" /\ JsonParses(got.text)
    THEN [value EXCEPT
              !.createdAt = IF TimeTruthy(JsonParse(got.text).createdAt)
                            THEN JsonParse(got.text).createdAt ELSE now,
              !.updatedAt = now]
    ELSE value

\* if (normalizedDevice.content): an object is truthy.
NotifyWanted(device) == device.content # NoContent

\* An end of PUT that makes the notification call before the write.
PutWriteNotifyFirst(st, req, mergedData, ttl, putOutcome, notifyOutcome, now) ==
    LET normalizedDevice == normalizeDeviceData(mergedData, now)
        put == [req EXCEPT !.putIssued = TRUE, !.device = normalizedDevice,
                           !.putTtl = IF TtlTruthy(ttl) THEN ttl ELSE NoTtl,
                           !.notify = notifyOutcome]
    IN  IF putOutcome = "fail"
        THEN [st |-> st, resp |-> handleError(put, "TransportError")]
        ELSE [st |-> KvPut(st, req.key, JsonStringify(normalizedDevice)),
              resp |-> [createSuccessResponse(put, "device_updated") EXCEPT
                            !.putOk = TRUE]]

\* An end of PUT that lets a notification call that throws reach the
\* handler's catch.
PutWriteNotifyThrows(st, req, mergedData, ttl, putOutcome, notifyOutcome, now) ==
    LET normalizedDevice == normalizeDeviceData(mergedData, now)
        put == [req EXCEPT !.putIssued = TRUE,
                           !.putTtl = IF TtlTruthy(ttl) THEN ttl ELSE NoTtl]
        done == [put EXCEPT !.putOk = TRUE, !.notify = notifyOutcome]
    IN  IF putOutcome = "fail"
        THEN [st |-> st, resp |-> handleError(put, "TransportError")]
        ELSE [st |-> KvPut(st, req.key, JsonStringify(normalizedDevice)),
              resp |-> IF notifyOutcome = "threw"
                       THEN handleError(done, "TransportError")
                       ELSE [createSuccessResponse(done, "device_updated") EXCEPT
                                 !.device = normalizedDevice]]

\* The end of PUT from normalizeDeviceData on: the write, the notification
\* call (notifyOutcome: "ok", "http_error" for a non-2xx status, "threw",
\* "pending" for a call that has not returned) and the response.  The
\* handler awaits the call: while it is pending there is no response
\* (status 0), the write being done.
PutWrite(st, req, mergedData, ttl, putOutcome, notifyOutcome, now) ==
    LET normalizedDevice == normalizeDeviceData(mergedData, now)
        put == [req EXCEPT !.putIssued = TRUE,
                           !.putTtl = IF TtlTruthy(ttl) THEN ttl ELSE NoTtl]
    IN  IF putOutcome = "fail"
        THEN [st |-> st, resp |-> handleError(put, "TransportError")]
        ELSE [st |-> KvPut(st, req.key, JsonStringify(normalizedDevice)),
              resp |-> IF NotifyWanted(normalizedDevice) /\ notifyOutcome = "pending"
                       THEN [put EXCEPT !.putOk = TRUE, !.device = normalizedDevice,
                                        !.notify = "pending"]
                       ELSE [createSuccessResponse(put, "device_updated") EXCEPT
                                 !.putOk = TRUE, !.device = normalizedDevice,
                                 !.notify = IF NotifyWanted(normalizedDevice)
                                            THEN notifyOutcome ELSE "none"]]

\* A full update that refuses to replace the record of another owner.
PutFullOwnerChecked(st, req, body, getOutcome, putOutcome, notifyOutcome, now) ==
    IF ~UpdateDeviceRequestValid(body)
    THEN [st |-> st, resp |-> handleError(req, "ZodError")]
    ELSE IF /\ OwnerOf(KvGet(st, body.key, getOutcome)) # <<Undefined, Undefined>>
            /\ OwnerOf(KvGet(st, body.key, getOutcome))
                    # <<body.value.owner, body.value.ownerKey>>
    THEN [st |-> st, resp |-> ErrorResponse(req, 404, "not_found")]
    ELSE PutWrite(st, [req EXCEPT !.path = "full",
                                  !.got = KvGet(st, body.key, getOutcome).r,
                                  !.gotOwner = OwnerOf(KvGet(st, body.key, getOutcome)),
                                  !.getFail = @ \/ getOutcome = "fail"],
                  FullMerge(KvGet(st, body.key, getOutcome), body.value, now),
                  body.ttl, putOutcome, notifyOutcome, now)

\* The catch block of PUT: the body is parsed as a full update.
PutFull(st, req, body, getOutcome, putOutcome, notifyOutcome, now) ==
    IF ~UpdateDeviceRequestValid(body)
    THEN [st |-> st, resp |-> handleError(req, "ZodError")]
    ELSE PutWrite(st, [req EXCEPT !.path = "full",
                                  !.got = KvGet(st, body.key, getOutcome).r,
                                  !.gotOwner = OwnerOf(KvGet(st, body.key, getOutcome)),
                                  !.getFail = @ \/ getOutcome = "fail"],
                  FullMerge(KvGet(st, body.key, getOutcome), body.value, now),
                  body.ttl, putOutcome, notifyOutcome, now)

\* export async function PUT(request), at the instant now.  gets are the
\* outcomes of the handler's reads in the order it makes them.
PutHandler(st, body, gets, putOutcome, notifyOutcome, now) ==
    LET req == [Request("PUT", body.key) EXCEPT
                    !.shape = BodyShape(body), !.body = body]
    IN  IF UpdateDeviceContentRequestValid(body)
        THEN LET m == ContentMerge(KvGet(st, body.key, gets[1]), body.content, now)
                 read == [req EXCEPT !.asContent = TRUE, !.getFail = gets[1] = "fail",
                                     !.got = KvGet(st, body.key, gets[1]).r,
                                     !.gotOwner = OwnerOf(KvGet(st, body.key, gets[1]))]
             IN  IF m.r = "notfound"
                 THEN [st |-> st, resp |-> ErrorResponse(read, 404, "not_found")]
                 ELSE IF m.r = "merged"
                 THEN PutWrite(st, [read EXCEPT !.path = "content"], m.data,
                               NoTtl, putOutcome, notifyOutcome, now)
                 ELSE PutFull(st, read, body, gets[2], putOutcome, notifyOutcome, now)
        ELSE PutFull(st, req, body, gets[1], putOutcome, notifyOutcome, now)

(***************************************************************************)
(* DELETE.                                                                 *)
(***************************************************************************)
\* A loop that reports the key before its delete has returned.
RECURSIVE DeleteScanReportsFirst(_, _, _, _, _, _, _)
DeleteScanReportsFirst(st, keys, i, readFail, delFail, owner, ownerKey) ==
    IF i > Len(keys) THEN [st |-> st, deletedKeys |-> <<>>, called |-> FALSE]
    ELSE LET it == ScanItem(st, keys[i], readFail)
             match == it.ok /\ OwnerMatches(it.device, owner, ownerKey)
             done == match /\ keys[i] \notin delFail
             rest == DeleteScanReportsFirst(
                        IF done THEN KvDelete(st, keys[i]) ELSE st,
                        keys, i + 1, readFail, delFail, owner, ownerKey)
         IN  [st |-> rest.st,
              deletedKeys |-> IF match THEN <<keys[i]>> \o rest.deletedKeys
                              ELSE rest.deletedKeys,
              called |-> match \/ rest.called]

\* The loop of the bulk delete over keys[i..]: the store afterwards, the
\* keys deleted and whether a delete was called.  A delete that throws is
\* caught and the key skipped.
RECURSIVE DeleteScan(_, _, _, _, _, _, _)
DeleteScan(st, keys, i, readFail, delFail, owner, ownerKey) ==
    IF i > Len(keys) THEN [st |-> st, deletedKeys |-> <<>>, called |-> FALSE]
    ELSE LET it == ScanItem(st, keys[i], readFail)
             match == it.ok /\ OwnerMatches(it.device, owner, ownerKey)
             done == match /\ keys[i] \notin delFail
             rest == DeleteScan(IF done THEN KvDelete(st, keys[i]) ELSE st,
                                keys, i + 1, readFail, delFail, owner, ownerKey)
         IN  [st |-> rest.st,
              deletedKeys |-> IF done THEN <<keys[i]>> \o rest.deletedKeys
                              ELSE rest.deletedKeys,
              called |-> match \/ rest.called]

\* DELETE ?deleteAll=true&owner=O&ownerKey=K
DeleteByOwner(st, owner, ownerKey, listOk, readFail, delFail) ==
    LET req == [Request("DELETE_BY_OWNER", Undefined) EXCEPT
                    !.owner = owner, !.ownerKey = ownerKey, !.listOk = listOk,
                    !.readFail = readFail, !.delFail = delFail]
        scan == DeleteScan(st, KvList(st), 1, readFail, delFail, owner, ownerKey)
    IN  IF ~listOk THEN [st |-> st, resp |-> handleError(req, "TransportError")]
        ELSE [st |-> scan.st,
              resp |-> [createSuccessResponse(req, "bulk_delete_completed") EXCEPT
                            !.deletedKeys = scan.deletedKeys,
                            !.delIssued = scan.called]]

\* A delete-one that deletes without looking for the device first.
DeleteOneUnchecked(st, key, getOutcome, delOutcome) ==
    LET req == [Request("DELETE", key) EXCEPT
                    !.delFail = IF delOutcome = "fail" THEN {key} ELSE {}]
        del == [req EXCEPT !.delIssued = TRUE]
    IN  IF delOutcome = "fail"
        THEN [st |-> st, resp |-> handleError(del, "TransportError")]
        ELSE [st |-> KvDelete(st, key),
              resp |-> createSuccessResponse(del, "device_deleted")]

\* DELETE ?key=K
DeleteOne(st, key, getOutcome, delOutcome) ==
    LET got == KvGet(st, key, getOutcome)
        req == [Request("DELETE", key) EXCEPT
                    !.getFail = getOutcome = "fail", !.got = got.r,
                    !.gotOwner = OwnerOf(got),
                    !.delFail = IF delOutcome = "fail" THEN {key} ELSE {}]
        del == [req EXCEPT !.delIssued = TRUE]
    IN  IF got.r # "value" \/ ~TextTruthy(got.text)
        THEN [st |-> st, resp |-> ErrorResponse(req, 404, "not_found")]
        ELSE IF delOutcome = "fail"
        THEN [st |-> st, resp |-> handleError(del, "TransportError")]
        ELSE [st |-> KvDelete(st, key),
              resp |-> createSuccessResponse(del, "device_deleted")]

\* export async function DELETE(request)
DeleteHandler(st, key, owner, ownerKey, deleteAll, listOk, readFail, delFail, getOutcome, delOutcome) ==
    IF deleteAll /\ ParamTruthy(owner) /\ ParamTruthy(ownerKey)
    THEN DeleteByOwner(st, owner, ownerKey, listOk, readFail, delFail)
    ELSE IF ~ParamTruthy(key)
    THEN [st |-> st,
          resp |-> ErrorResponse(Request("DELETE", key), 400, "missing_key")]
    ELSE DeleteOne(st, key, getOutcome, delOutcome)

(***************************************************************************)
(* The requests and the Gateway behaviours of the model.                   *)
(***************************************************************************)
\* (owner, ownerKey) pairs: two keys of one owner, and a second owner.
Identities == {<<"alice", ApiKeyA>>, <<"alice", ApiKeyB>>, <<"bob", ApiKeyA>>}

\* The devices a scan may meet: one of each owner pair.
ScanValues ==
    {MkDevice(id[1], id[2], IdA, "Desk", ContentHello, 0, NoTime) : id \in Identities}

\* The values of the write requests: two devices that differ in every
\* property but the name, the second with timestamps of its own.
WriteValues ==
    {MkDevice("alice", ApiKeyA, IdA, "Desk", ContentEmpty, NoTime, NoTime),
     MkDevice("bob", ApiKeyB, IdB, "Desk", ContentHello, 0, 0)}

\* Values that fail DeviceSchema: an API key that is too short, a device
\* id in lower case, a createdAt that is no datetime.
InvalidValues ==
    {MkDevice("alice", ApiKeyBad, IdA, "Desk", ContentEmpty, NoTime, NoTime),
     MkDevice("alice", ApiKeyA, IdBad, "Desk", ContentEmpty, NoTime, NoTime),
     MkDevice("alice", ApiKeyA, IdA, "Desk", ContentEmpty, BadTime, NoTime)}

\* The key the write requests name.
WriteKey == IdA

\* Bodies of the shape {key, value}, and the body {key}.
ValueBodies ==
    {MkBody(WriteKey, Missing, v) : v \in WriteValues \cup InvalidValues}
        \cup {MkBody(WriteKey, Missing, Missing)}
        \cup {MkBody("", Missing, v) : v \in WriteValues}

\* Bodies of the shape {key, value, ttl}: a ttl of 0, and the ttls at and
\* next to the two ends of the range.
TtlBodies ==
    {MkBodyTtl(WriteKey, Missing,
               MkDevice("alice", ApiKeyA, IdA, "Desk", ContentEmpty, NoTime, NoTime), t) :
        t \in {0, MinTtl - 1, MinTtl, MaxTtl, MaxTtl + 1}}

\* Bodies of the shape {key, content}.
ContentBodies ==
    {MkBody(WriteKey, c, Missing) : c \in {ContentEmpty, ContentHello, ContentBad}}
        \cup {MkBody("", ContentHello, Missing)}

\* Bodies with both content and value.
BothBodies == {MkBody(WriteKey, ContentHello, v) : v \in WriteValues}

PostBodies == ValueBodies
PutBodies == ValueBodies \cup ContentBodies \cup BothBodies

NotifyOutcomes == {"ok", "http_error", "threw", "pending"}

\* The Gateway's behaviour during one request: the outcomes of its reads
\* of single keys in the order they are made (gets), of its write (put), of
\* keys.list (listOk), the keys whose read (readFail) and whose delete
\* (delFail) fail, and the outcome of the notification call (notify).
MkGateway(gets, put, listOk, readFail, delFail, notify) ==
    [gets |-> gets, put |-> put, listOk |-> listOk, readFail |-> readFail,
     delFail |-> delFail, notify |-> notify]

NoFault == MkGateway(<<"ok", "ok">>, "ok", TRUE, {}, {}, "ok")

\* The behaviours towards a request that reads one key and writes it.
WriteGateways ==
    {[NoFault EXCEPT !.gets = <<g, "ok">>, !.notify = n] :
        g \in Outcomes, n \in NotifyOutcomes}
        \cup {[NoFault EXCEPT !.gets = <<g, "ok">>, !.put = "fail"] : g \in Outcomes}

\* The behaviours towards a request that reads the key twice.
RereadGateways ==
    {[NoFault EXCEPT !.gets = gets] : gets \in [1..2 -> Outcomes]}

\* The behaviours towards a scan.
ScanGateways ==
    {[NoFault EXCEPT !.readFail = r, !.delFail = d] :
        r \in {{}, {IdB}, {IdA}, {IdC}, StoreKeys}, d \in {{}, {IdA}, StoreKeys}}
        \cup {[NoFault EXCEPT !.listOk = FALSE]}

\* The behaviours towards a request that reads one key and deletes it.
DeleteGateways ==
    {[NoFault EXCEPT !.gets = <<g, "ok">>, !.delFail = d] :
        g \in Outcomes, d \in {{}, StoreKeys}}

\* Query parameters of GET and DELETE.
MkQuery(key, owner, ownerKey, deleteAll) ==
    [key |-> key, owner |-> owner, ownerKey |-> ownerKey, deleteAll |-> deleteAll]

\* ?owner=O&ownerKey=K, with deleteAll=true for the bulk delete
OwnerQueries(deleteAll) ==
    {MkQuery(Undefined, id[1], id[2], deleteAll) :
        id \in Identities \cup {<<"bob", ApiKeyB>>}}
        \cup {MkQuery(IdA, "alice", ApiKeyA, deleteAll)}

\* ?key=K
KeyQueries ==
    {MkQuery(k, Undefined, Undefined, FALSE) : k \in StoreKeys}
        \cup {MkQuery(IdA, "alice", "", FALSE)}

\* Neither a key nor an owner pair.
BareQueries ==
    {MkQuery(Undefined, Undefined, Undefined, FALSE),
     MkQuery("", "alice", Undefined, FALSE),
     MkQuery(Undefined, Undefined, ApiKeyA, TRUE)}

\* The requests: a body or a query, with the Gateway's behaviour.
PostRequests ==
    {<<b, g>> : b \in {x \in PostBodies \cup TtlBodies : CreateDeviceRequestValid(x)},
                g \in {x \in WriteGateways : x.notify = "ok"}}
        \cup {<<b, NoFault>> :
                b \in {x \in PostBodies \cup TtlBodies : ~CreateDeviceRequestValid(x)}}

PutRequests ==
    {<<b, g>> : b \in {x \in ValueBodies : UpdateDeviceRequestValid(x)}
                        \cup {x \in ContentBodies : UpdateDeviceContentRequestValid(x)},
                g \in WriteGateways}
        \cup {<<b, g>> : b \in BothBodies, g \in WriteGateways \cup RereadGateways}
        \cup {<<b, g>> : b \in {x \in TtlBodies : UpdateDeviceRequestValid(x)},
                         g \in {x \in WriteGateways : x.notify = "ok"}}
        \cup {<<b, NoFault>> : b \in {x \in TtlBodies : ~UpdateDeviceRequestValid(x)}}
        \cup {<<b, NoFault>> :
                b \in {x \in ValueBodies : ~UpdateDeviceRequestValid(x)}
                        \cup {x \in ContentBodies : ~UpdateDeviceContentRequestValid(x)}}

\* The reads and deletes next to the writes: the single-key requests with
\* every behaviour, the scans for one owner pair and for none.
GetRequests ==
    {<<q, [NoFault EXCEPT !.gets = <<o, "ok">>]>> : q \in KeyQueries, o \in Outcomes}
        \cup {<<q, g>> : q \in {MkQuery(Undefined, "bob", ApiKeyB, FALSE),
                                MkQuery(Undefined, Undefined, Undefined, FALSE)},
                         g \in {NoFault, [NoFault EXCEPT !.listOk = FALSE]}}

DeleteRequests ==
    {<<q, g>> : q \in KeyQueries, g \in DeleteGateways}
        \cup {<<MkQuery(WriteKey, "bob", ApiKeyB, FALSE), NoFault>>}
        \cup {<<q, NoFault>> : q \in BareQueries}
        \cup {<<MkQuery(Undefined, "bob", ApiKeyB, TRUE), g>> :
                g \in {NoFault, [NoFault EXCEPT !.listOk = FALSE],
                       [NoFault EXCEPT !.delFail = {WriteKey}]}}

\* The scans: every owner query with every behaviour of the Gateway.
ScanGetRequests ==
    {<<q, g>> : q \in OwnerQueries(FALSE) \cup BareQueries,
                g \in {x \in ScanGateways : x.delFail = {}}}
        \cup {<<q, [NoFault EXCEPT !.gets = <<o, "ok">>]>> :
                q \in KeyQueries, o \in Outcomes}

ScanDeleteRequests ==
    {<<q, g>> : q \in OwnerQueries(TRUE),
                g \in {x \in ScanGateways : x.readFail \cap x.delFail = {}}}

\* What a key may hold when a scan starts: a legacy text, or a device
\* created at instant 0.
ScanTexts ==
    LegacyTexts \cup {JsonStringify(normalizeDeviceData(v, 0)) : v \in ScanValues}

\* What the last key of the namespace holds when the requests start.
ThirdTexts == {Absent}
\* What the first key of the namespace holds when the requests start.
FirstTexts == {Absent, GarbageText}
ThirdScanTexts ==
    {Absent, GarbageText,
     JsonStringify(normalizeDeviceData(
        MkDevice("alice", ApiKeyA, IdC, "Shelf", ContentHello, NoTime, NoTime), 0))}

(***************************************************************************)
(* The specifications.                                                     *)
(***************************************************************************)
\* No request was given.
NoAsk == <<NoBody, NoFault>>

\* The requests that run concurrently: two creates and a bulk delete.
Creators == {"c1", "c2"}
Deleter == "d"
Procs == Creators \cup {Deleter}

\* A request in progress: pc is the await it has reached ("idle" before the
\* handler runs, "put" after the existence check of POST, "scan" before
\* the read of keys[i] in the bulk delete, "delete" after a read that
\* matched, "done" after the response), body the body of a POST, keys the
\* listing of the bulk delete, seen the text its last read gave, gone the
\* text its last delete removed, and the response.
NoProc ==
    [pc |-> "idle", body |-> NoBody, keys |-> <<>>, i |-> 0, seen |-> Absent,
     gone |-> Absent, status |-> 0, type |-> Undefined, device |-> EmptyObj, deletedKeys |-> <<>>]
NoProcs == [p \in Procs |-> NoProc]

\* The hook before its first render: useState([]), useState(false),
\* useState(null).  hook is the hook rendered ("none" while the console is
\* not open), owner and ownerKey its arguments, devices "list" for the
\* devices of a response and "empty" for [], started the number of calls
\* of its fetch function, shown the call that set devices last (0 for
\* none) and flight the calls whose request has not settled.
NoUi ==
    [hook |-> "none", owner |-> Undefined, ownerKey |-> Undefined,
     devices |-> "empty", shown |-> 0, loading |-> FALSE, error |-> FALSE,
     started |-> 0, flight |-> {}]

Init ==
    /\ store \in [StoreKeys -> LegacyTexts]
    /\ store[IdB] \in FirstTexts
    /\ store[IdC] \in ThirdTexts
    /\ clock = 0
    /\ absentAs \in {"empty", "error"}
    /\ last = NoRequest
    /\ asked = NoAsk
    /\ procs = NoProcs
    /\ writer = "none"
    /\ ui = NoUi

\* Time passes; no request is handled.
Tick ==
    /\ clock < MaxClock
    /\ clock' = clock + 1
    /\ last' = NoRequest
    /\ asked' = NoAsk
    /\ UNCHANGED <<store, absentAs, procs, writer, ui>>

Get(requests) ==
    \E rq \in requests :
        /\ last' = GetHandler(store, rq[1].key, rq[1].owner, rq[1].ownerKey,
                              rq[2].listOk, rq[2].readFail, rq[2].gets[1])
        /\ asked' = rq
        /\ UNCHANGED <<store, clock, absentAs, procs, writer, ui>>

Post(requests) ==
    \E rq \in requests :
        LET r == PostHandler(store, rq[1], rq[2].gets[1], rq[2].put, clock)
        IN  /\ store' = r.st
            /\ last' = r.resp
            /\ asked' = rq
            /\ UNCHANGED <<clock, absentAs, procs, writer, ui>>

Put(requests) ==
    \E rq \in requests :
        LET r == PutHandler(store, rq[1], rq[2].gets, rq[2].put, rq[2].notify, clock)
        IN  /\ store' = r.st
            /\ last' = r.resp
            /\ asked' = rq
            /\ UNCHANGED <<clock, absentAs, procs, writer, ui>>

Delete(requests) ==
    \E rq \in requests :
        LET r == DeleteHandler(store, rq[1].key, rq[1].owner, rq[1].ownerKey,
                               rq[1].deleteAll, rq[2].listOk, rq[2].readFail,
                               rq[2].delFail, rq[2].gets[1],
                               IF rq[1].key \in rq[2].delFail THEN "fail" ELSE "ok")
        IN  /\ store' = r.st
            /\ last' = r.resp
            /\ asked' = rq
            /\ UNCHANGED <<clock, absentAs, procs, writer, ui>>

DoGet == Get(GetRequests)
DoPost == Post(PostRequests)
DoPut == Put(PutRequests)
DoDelete == Delete(DeleteRequests)

\* The device API under requests that write one key.
Next == Tick \/ DoGet \/ DoPost \/ DoPut \/ DoDelete

Spec == Init /\ [][Next]_vars

\* The scans over a namespace that holds devices of several owners.
ScanInit ==
    /\ store \in [StoreKeys -> ScanTexts \cup ThirdScanTexts]
    /\ \A k \in StoreKeys \ {IdC} : store[k] \in ScanTexts
    /\ store[IdC] \in ThirdScanTexts
    /\ clock = 0
    /\ absentAs \in {"empty", "error"}
    /\ last = NoRequest
    /\ asked = NoAsk
    /\ procs = NoProcs
    /\ writer = "none"
    /\ ui = NoUi

ScanGet == Get(ScanGetRequests)
ScanDelete == Delete(ScanDeleteRequests)

ScanNext == ScanGet \/ ScanDelete

SpecScan == ScanInit /\ [][ScanNext]_vars

(***************************************************************************)
(* Requests that run concurrently.  A handler runs from one await of a     *)
(* Gateway call to the next in one step; between two steps of a request    *)
(* the steps of the others may run.                                        *)
(***************************************************************************)
\* The bodies of the concurrent creates, all for one key.
RaceBodies == {MkBody(WriteKey, Missing, v) : v \in WriteValues}

\* The owner pair of the concurrent bulk delete.
RaceOwner == <<"alice", ApiKeyA>>

\* What a key may hold when the concurrent requests start: nothing, or a
\* device of that owner pair.
RaceTexts ==
    {Absent,
     JsonStringify(normalizeDeviceData(
        MkDevice("alice", ApiKeyA, IdB, "Desk", ContentHello, 0, NoTime), 0))}

\* POST up to the end of its existence check.
PostCheck(p) ==
    /\ procs[p].pc = "idle"
    /\ \E body \in RaceBodies, o \in Outcomes :
          LET got == KvGet(store, body.key, o)
              me == [procs[p] EXCEPT !.body = body, !.seen = got.text]
          IN  procs' = [procs EXCEPT ![p] =
                  IF ~CreateDeviceRequestValid(body)
                  THEN [me EXCEPT !.pc = "done", !.status = 400]
                  ELSE IF CreateConflict(got)
                  THEN [me EXCEPT !.pc = "done", !.status = 409]
                  ELSE [me EXCEPT !.pc = "put"]]
    /\ UNCHANGED <<store, clock, absentAs, last, asked, writer, ui>>

\* POST from normalizeDeviceData on: the put and the response.
PostPut(p) ==
    /\ procs[p].pc = "put"
    /\ \E o \in Outcomes :
          LET body == procs[p].body
              normalizedDevice == normalizeDeviceData(body.value, clock)
          IN  IF o = "fail"
              THEN /\ procs' = [procs EXCEPT ![p].pc = "done", ![p].status = 500]
                   /\ UNCHANGED <<store, writer>>
              ELSE /\ store' = KvPut(store, body.key, JsonStringify(normalizedDevice))
                   /\ writer' = p
                   /\ procs' = [procs EXCEPT ![p].pc = "done", ![p].status = 200,
                                             ![p].type = "device_created",
                                             ![p].device = normalizedDevice]
    /\ UNCHANGED <<clock, absentAs, last, asked, ui>>

\* The bulk delete up to the listing of the keys.
DeleteList ==
    /\ procs[Deleter].pc = "idle"
    /\ \E listOk \in BOOLEAN :
          procs' = [procs EXCEPT ![Deleter] =
              IF listOk THEN [@ EXCEPT !.pc = "scan", !.keys = KvList(store), !.i = 1]
              ELSE [@ EXCEPT !.pc = "done", !.status = 500]]
    /\ UNCHANGED <<store, clock, absentAs, last, asked, writer, ui>>

\* A read that sends the bulk delete to the delete whatever the owner.
DeleteReadAnyOwner ==
    /\ procs[Deleter].pc = "scan"
    /\ procs[Deleter].i <= Len(procs[Deleter].keys)
    /\ \E o \in Outcomes :
          LET k == procs[Deleter].keys[procs[Deleter].i]
              it == ScanItem(store, k, IF o = "fail" THEN {k} ELSE {})
          IN  procs' = [procs EXCEPT ![Deleter] =
                  IF it.ok
                  THEN [@ EXCEPT !.pc = "delete", !.seen = store[k]]
                  ELSE [@ EXCEPT !.i = @ + 1]]
    /\ UNCHANGED <<store, clock, absentAs, last, asked, writer, ui>>

\* One round of the bulk delete's loop up to the owner test: the read of
\* keys[i], validateDevice and the comparison with the owner pair.
DeleteRead ==
    /\ procs[Deleter].pc = "scan"
    /\ procs[Deleter].i <= Len(procs[Deleter].keys)
    /\ \E o \in Outcomes :
          LET k == procs[Deleter].keys[procs[Deleter].i]
              it == ScanItem(store, k, IF o = "fail" THEN {k} ELSE {})
          IN  procs' = [procs EXCEPT ![Deleter] =
                  IF it.ok /\ OwnerMatches(it.device, RaceOwner[1], RaceOwner[2])
                  THEN [@ EXCEPT !.pc = "delete", !.seen = store[k]]
                  ELSE [@ EXCEPT !.i = @ + 1]]
    /\ UNCHANGED <<store, clock, absentAs, last, asked, writer, ui>>

\* The rest of the round: the delete of keys[i], reported when it returns.
DeleteDelete ==
    /\ procs[Deleter].pc = "delete"
    /\ \E o \in Outcomes :
          LET k == procs[Deleter].keys[procs[Deleter].i]
          IN  IF o = "fail"
              THEN /\ procs' = [procs EXCEPT ![Deleter].pc = "scan",
                                             ![Deleter].i = @ + 1]
                   /\ UNCHANGED <<store, writer>>
              ELSE /\ store' = KvDelete(store, k)
                   /\ writer' = IF k = WriteKey THEN Deleter ELSE writer
                   /\ procs' = [procs EXCEPT ![Deleter].pc = "scan",
                                             ![Deleter].i = @ + 1,
                                             ![Deleter].gone = store[k],
                                             ![Deleter].deletedKeys = Append(@, k)]
    /\ UNCHANGED <<clock, absentAs, last, asked, ui>>

\* The response of the bulk delete, after the loop.
DeleteRespond ==
    /\ procs[Deleter].pc = "scan"
    /\ procs[Deleter].i > Len(procs[Deleter].keys)
    /\ procs' = [procs EXCEPT ![Deleter].pc = "done", ![Deleter].status = 200,
                              ![Deleter].type = "bulk_delete_completed"]
    /\ UNCHANGED <<store, clock, absentAs, last, asked, writer, ui>>

DoPostCheck == \E p \in Creators : PostCheck(p)
DoPostPut == \E p \in Creators : PostPut(p)

\* The key of the creates has no value; the first key of the listing may
\* hold a device of the owner pair of the bulk delete.
RaceInit ==
    /\ store \in [StoreKeys -> RaceTexts]
    /\ store[WriteKey] = Absent
    /\ store[IdC] = Absent
    /\ clock = 0
    /\ absentAs \in {"empty", "error"}
    /\ last = NoRequest
    /\ asked = NoAsk
    /\ procs = NoProcs
    /\ writer = "none"
    /\ ui = NoUi

RaceNext ==
    DoPostCheck \/ DoPostPut \/ DeleteList \/ DeleteRead \/ DeleteDelete
        \/ DeleteRespond

\* Two creates of one key and a bulk delete, interleaved at their awaits.
SpecRace == RaceInit /\ [][RaceNext]_vars

(***************************************************************************)
(* The device list hooks of the console (hooks/use-devices.ts).            *)
(***************************************************************************)
\* The number of calls of the fetch function.
MaxFetches == 3

\* The arguments useUserDevices is rendered with.
HookOwners == {<<"alice", ApiKeyA>>, <<"bob", ApiKeyB>>, <<"alice", Undefined>>}

\* fetchDevices(), up to its await: setLoading(true), setError(null) and
\* the request.
fetchDevices(u) ==
    [u EXCEPT !.loading = TRUE, !.error = FALSE, !.started = @ + 1,
              !.flight = @ \cup {[id |-> u.started + 1, owner |-> u.owner,
                                  ownerKey |-> u.ownerKey]}]

\* fetchUserDevices(), up to its await; without owner or ownerKey it sets
\* devices to [] and returns.
fetchUserDevices(u) ==
    IF ~ParamTruthy(u.owner) \/ ~ParamTruthy(u.ownerKey)
    THEN [u EXCEPT !.devices = "empty", !.shown = u.started + 1, !.started = @ + 1]
    ELSE fetchDevices(u)

\* The fetch function of the hook rendered.
Fetch(u) == IF u.hook = "useUserDevices" THEN fetchUserDevices(u) ELSE fetchDevices(u)

\* The effect on mount, refreshDevices() or refreshUserDevices(): one more
\* call of the fetch function, whatever is in flight.
HookRefresh ==
    /\ ui.started < MaxFetches
    /\ ui' = Fetch(ui)
    /\ UNCHANGED <<store, clock, absentAs, last, asked, procs, writer>>

\* useUserDevices is rendered with another owner or ownerKey: the
\* callback changes and the effect calls it.
HookChangeOwner ==
    /\ ui.hook = "useUserDevices"
    /\ ui.started < MaxFetches
    /\ \E id \in HookOwners :
          /\ id # <<ui.owner, ui.ownerKey>>
          /\ ui' = Fetch([ui EXCEPT !.owner = id[1], !.ownerKey = id[2]])
    /\ UNCHANGED <<store, clock, absentAs, last, asked, procs, writer>>

\* The request of a call resolves: setDevices(response.devices || []),
\* then setLoading(false).
HookResolve ==
    /\ \E f \in ui.flight, d \in {"list", "empty"} :
          ui' = [ui EXCEPT !.devices = d, !.shown = f.id, !.loading = FALSE,
                           !.flight = @ \ {f}]
    /\ UNCHANGED <<store, clock, absentAs, last, asked, procs, writer>>

\* The request of a call rejects: setError, setDevices([]), then
\* setLoading(false).
HookReject ==
    /\ \E f \in ui.flight :
          ui' = [ui EXCEPT !.error = TRUE, !.devices = "empty", !.shown = f.id,
                           !.loading = FALSE, !.flight = @ \ {f}]
    /\ UNCHANGED <<store, clock, absentAs, last, asked, procs, writer>>

\* The first render of one of the two hooks: useDevices with or without
\* initial devices, useUserDevices with its arguments.
HookInit ==
    /\ store = [k \in StoreKeys |-> Absent]
    /\ clock = 0
    /\ absentAs = "empty"
    /\ last = NoRequest
    /\ asked = NoAsk
    /\ procs = NoProcs
    /\ writer = "none"
    /\ ui \in {[NoUi EXCEPT !.hook = "useDevices", !.devices = d] :
                    d \in {"empty", "list"}}
              \cup {[NoUi EXCEPT !.hook = "useUserDevices", !.owner = id[1],
                                 !.ownerKey = id[2]] :
                        id \in HookOwners \cup {<<Undefined, Undefined>>}}

HookNext == HookRefresh \/ HookChangeOwner \/ HookResolve \/ HookReject

\* A hook of the console under refreshes and changes of its arguments.
SpecHooks == HookInit /\ [][HookNext]_vars

(***************************************************************************)
(* Properties.                                                             *)
(***************************************************************************)
\* The text holds a device: it parses and the object passes DeviceSchema.
IsDevice(text) == JsonParses(text) /\ DeviceValid(JsonParse(text))

\* The key has a non-empty value.
NonEmpty(text) == text.kind \notin {"absent", "empty"}

\* The key holds no record: it has no value, or the empty string.
NoRecord(text) == text.kind \in {"absent", "empty"}

\* C1: a POST create (a body that passes the create schema) of a key whose
\* stored value is non-empty answers 409, issues no put and leaves the
\* store as it was.
C1_CreateOnExistingKeyConflicts ==
    [][(/\ last'.op = "POST"
        /\ last'.status # 400
        /\ NonEmpty(store[last'.key]))
       => (/\ last'.status = 409
           /\ ~last'.putIssued
           /\ store' = store)]_vars

\* C2: a content-only update (a body {key, content} that passes the
\* content schema) of a key that holds no record answers 404 and issues no
\* put, however the Gateway reports the missing value (the read itself
\* reaches the store).
C2_ContentUpdateOfMissingKeyIs404 ==
    [][(/\ last'.op = "PUT"
        /\ last'.shape = "content"
        /\ last'.asContent
        /\ ~last'.getFail
        /\ NoRecord(store[last'.key]))
       => (/\ last'.status = 404
           /\ ~last'.putIssued)]_vars

\* C3: a successful update (full or content-only) of a key that holds a
\* device leaves the stored createdAt as it was.
C3_CreatedAtNeverChanges ==
    [][(/\ last'.op = "PUT"
        /\ last'.putOk
        /\ IsDevice(store[last'.key])
        /\ TimeTruthy(JsonParse(store[last'.key]).createdAt))
       => JsonParse(store'[last'.key]).createdAt
              = JsonParse(store[last'.key]).createdAt]_vars

\* C4: every device of the store is stored under its own deviceId, and no
\* two keys hold devices with the same deviceId.
C4_KeyIsDeviceId ==
    /\ \A k \in StoreKeys : IsDevice(store[k]) => JsonParse(store[k]).deviceId = k
    /\ \A j, k \in StoreKeys :
        (j # k /\ IsDevice(store[j]) /\ IsDevice(store[k]))
            => JsonParse(store[j]).deviceId # JsonParse(store[k]).deviceId

\* C5: a full update of a key that holds a device makes the notification
\* call only if the content written differs from the content stored.
C5_NotifyOnlyOnContentChange ==
    [][(/\ last'.op = "PUT"
        /\ last'.path = "full"
        /\ last'.notify # "none"
        /\ IsDevice(store[last'.key]))
       => last'.device.content # JsonParse(store[last'.key]).content]_vars

\* C10: get-one of a key whose stored value is no JSON, or is JSON that
\* fails the Device schema, answers 400 with the list of violations.
C10_GetOneOfMalformedIsValidationError ==
    (/\ last.op = "GET_ONE"
     /\ ~last.getFail
     /\ NonEmpty(store[last.key])
     /\ ~IsDevice(store[last.key]))
        => (last.status = 400 /\ last.details = "list")

\* C6: a notification call is made only by a PUT, and only after that
\* PUT's write has succeeded (the store then holds the device written): no
\* GET, POST or DELETE makes one, nor a PUT answered 400, 404 or 500.
C6_NotifyOnlyAfterSuccessfulPut ==
    last.notify # "none"
        => (/\ last.op = "PUT"
            /\ last.putIssued
            /\ last.putOk
            /\ (last.status = 200 \/ last.notify = "pending")
            /\ store[last.key] = JsonStringify(last.device))

\* A PUT has written and made the notification call.
C6_Witness == last.op = "PUT" /\ last.putOk /\ last.notify = "ok"

\* C7: a PUT whose write succeeded answers 200 device_updated with the
\* device written, and the store holds that device, whether the
\* notification call succeeded, got a non-success status or threw.
C7_NotifyFailureNotPropagated ==
    (last.op = "PUT" /\ last.putOk /\ last.notify # "pending")
        => (/\ last.status = 200
            /\ last.type = "device_updated"
            /\ last.error = Undefined
            /\ store[last.key] = JsonStringify(last.device))

\* A PUT has written, and its notification call threw.
C7_Witness ==
    /\ last.op = "PUT"
    /\ last.putOk
    /\ last.notify = "threw"
    /\ store[last.key] = JsonStringify(last.device)

\* A PUT has written, and its notification call got a non-success status.
C7_WitnessHttpError == last.op = "PUT" /\ last.putOk /\ last.notify = "http_error"

\* The devices a scan of the store finds when the reads of the keys in
\* failed fail: those of the keys, in the order of the listing, whose text
\* holds a device.
DevicesOf(failed) ==
    LET keys == SelectSeq(KeyOrder, LAMBDA k : k \notin failed /\ IsDevice(store[k]))
    IN  [i \in 1..Len(keys) |-> JsonParse(store[keys[i]])]

\* C8: the devices of listByOwner(O, K) are those of listAll(), on the same
\* store and with the same reads, whose owner is O and whose ownerKey is K:
\* none other, and none of them left out.
C8_ByOwnerIsFilterOfAll ==
    (last.op = "GET_BY_OWNER" /\ last.status = 200)
        => LET all == GetAll(store, TRUE, last.readFail).devices
               Mine(d) == d.owner = last.owner /\ d.ownerKey = last.ownerKey
           IN  /\ last.devices = SelectSeq(all, Mine)
               /\ \A i \in 1..Len(last.devices) : Mine(last.devices[i])
               /\ \A i \in 1..Len(all) :
                    Mine(all[i]) => \E j \in 1..Len(last.devices) : last.devices[j] = all[i]
               /\ last.count = Len(last.devices)
               /\ last.type = "devices_by_owner"

\* listByOwner returned a device while listAll returns with it a device of
\* the same owner with another ownerKey.
C8_Witness ==
    /\ last.op = "GET_BY_OWNER"
    /\ Len(last.devices) = 1
    /\ last.readFail = {}
    /\ LET all == GetAll(store, TRUE, {}).devices
       IN  \E i \in 1..Len(all) :
            /\ all[i].owner = last.owner
            /\ all[i].ownerKey # last.ownerKey

\* C9: listAll, when keys.list succeeds, answers 200 with exactly the
\* devices of the keys of the namespace, however many, whose value could be
\* read, is non-empty, parses and passes the schema, one per key, and
\* their number as count; the server-side listing gives the same devices.
C9_ListAllReturnsTheValidRecords ==
    (last.op = "GET_ALL" /\ last.listOk)
        => (/\ last.status = 200
            /\ last.type = "all_devices"
            /\ last.devices = DevicesOf(last.readFail)
            /\ last.count = Len(last.devices)
            /\ getDevicesServerSide(store, TRUE, last.readFail).devices = last.devices)

\* The text holds a device of the owner pair.
HoldsDeviceOf(text, owner, ownerKey) ==
    IsDevice(text) /\ OwnerMatches(JsonParse(text), owner, ownerKey)

\* C11: deleteByOwner(O, K), the Gateway's calls all succeeding, deletes
\* exactly the keys of the namespace that hold a device of owner O and
\* ownerKey K, answers exactly those keys as deletedKeys, and leaves the
\* value of every other key as it was, get-one answering for it as before.
C11_DeleteByOwnerDeletesExactlyTheMatching ==
    [][(/\ last'.op = "DELETE_BY_OWNER"
        /\ last'.listOk
        /\ last'.readFail = {}
        /\ last'.delFail = {})
       => (/\ last'.status = 200
           /\ last'.type = "bulk_delete_completed"
           /\ last'.deletedKeys =
                SelectSeq(KeyOrder,
                          LAMBDA k : HoldsDeviceOf(store[k], last'.owner, last'.ownerKey))
           /\ \A k \in StoreKeys :
                IF HoldsDeviceOf(store[k], last'.owner, last'.ownerKey)
                THEN store'[k] = Absent
                ELSE /\ store'[k] = store[k]
                     /\ GetOne(store', k, "ok") = GetOne(store, k, "ok"))]_vars

\* C12: a full update (a body {key, value} that passes the schema) of a key
\* that holds no record, its write reaching the store and its notification
\* call returning, answers 200 device_updated and writes the record: a
\* following get-one answers a device whose owner, ownerKey, deviceId, name
\* and content are those of the value, whose createdAt is the value's if it
\* has one, and whose updatedAt is the instant of the update.
C12_FullUpdateOfMissingKeyCreates ==
    [][(/\ last'.op = "PUT"
        /\ last'.shape = "value"
        /\ UpdateDeviceRequestValid(last'.body)
        /\ NoRecord(store[last'.key])
        /\ ~(last'.putIssued /\ ~last'.putOk)
        /\ last'.notify # "pending")
       => LET v == last'.body.value
              g == GetOne(store', last'.key, "ok")
          IN  /\ last'.status = 200
              /\ last'.type = "device_updated"
              /\ last'.putOk
              /\ g.status = 200
              /\ g.device = last'.device
              /\ g.device.owner = v.owner
              /\ g.device.ownerKey = v.ownerKey
              /\ g.device.deviceId = v.deviceId
              /\ g.device.name = v.name
              /\ g.device.content = v.content
              /\ TimeTruthy(v.createdAt) => g.device.createdAt = v.createdAt
              /\ g.device.updatedAt = clock]_vars

\* A full update has created the record of a key that had no value, with
\* the createdAt of the request, at a later instant.
C12_Witness ==
    /\ last.op = "PUT"
    /\ last.shape = "value"
    /\ last.got \in {"null", "notfound"}
    /\ last.status = 200
    /\ last.body.value.createdAt = 0
    /\ clock = 1
    /\ JsonParse(store[last.key]).createdAt = 0
    /\ JsonParse(store[last.key]).updatedAt = 1

C14_DeleteOneChecksExistence ==
    [][(last'.op = "DELETE" /\ last'.key \in StoreKeys)
       => /\ store[last'.key] = Absent
            => (/\ last'.status = 404
                /\ ~last'.delIssued
                /\ store' = store)
          /\ (/\ NonEmpty(store[last'.key])
              /\ ~last'.getFail
              /\ last'.delFail = {})
            => (/\ last'.status = 200
                /\ last'.type = "device_deleted"
                /\ last'.delIssued
                /\ store' = [store EXCEPT ![last'.key] = Absent]
                /\ GetOne(store', last'.key, "ok").status = 404)]_vars

\* Delete-one has deleted the value it found under the key.
C14_Witness ==
    /\ last.op = "DELETE"
    /\ last.got = "value"
    /\ last.delIssued
    /\ last.status = 200
    /\ store[last.key] = Absent

\* Delete-one has answered 404 for a key that has no value.
C14_WitnessAbsent ==
    /\ last.op = "DELETE"
    /\ last.got \in {"null", "notfound"}
    /\ last.status = 404
    /\ store[last.key] = Absent

\* C15: every request is answered, with 200, 400, 404, 409 or 500; a body
\* or a stored value that fails its schema gives 400 with the list of
\* violations; a request for one key that has no value (get-one,
\* content-only update, delete-one) gives 404; a create of a key with a
\* non-empty value gives 409; and a Gateway call of the handler that fails
\* in transport (the read or the write of the one key, keys.list, the
\* delete of delete-one) gives 500 with the error's message.
C15_EveryRequestGetsItsStatus ==
    [][(last'.op # "none")
       => LET r == last'
              stored == IF r.key \in StoreKeys THEN store[r.key] ELSE Absent
              oneKey == r.op \in {"GET_ONE", "DELETE"} /\ r.key \in StoreKeys
              contentPut == /\ r.op = "PUT"
                            /\ r.shape = "content"
                            /\ UpdateDeviceContentRequestValid(r.body)
          IN  /\ r.status \in {200, 400, 404, 409, 500}
              /\ (\/ r.op = "POST" /\ ~CreateDeviceRequestValid(r.body)
                  \/ /\ r.op = "PUT"
                     /\ ~UpdateDeviceContentRequestValid(r.body)
                     /\ ~UpdateDeviceRequestValid(r.body)
                  \/ /\ r.op = "GET_ONE"
                     /\ ~r.getFail
                     /\ JsonParses(stored)
                     /\ ~DeviceValid(JsonParse(stored)))
                    => (r.status = 400 /\ r.details = "list")
              /\ ((oneKey \/ contentPut) /\ ~r.getFail /\ stored = Absent)
                    => r.status = 404
              /\ (/\ r.op = "POST"
                  /\ CreateDeviceRequestValid(r.body)
                  /\ ~r.getFail
                  /\ NonEmpty(stored))
                    => r.status = 409
              /\ (\/ r.getFail
                  \/ ~r.listOk
                  \/ r.putIssued /\ ~r.putOk
                  \/ r.op = "DELETE" /\ r.delIssued /\ r.delFail # {})
                    => (r.status = 500 /\ r.details = "message")]_vars

\* C16: a POST that has created a device answers 200 device_created with
\* the device stored, whose createdAt and updatedAt are both the instant of
\* the request, whatever the body's value carries.
C16_CreateStampsBothTimestamps ==
    (last.op = "POST" /\ last.status = 200)
        => (/\ last.type = "device_created"
            /\ store[last.key] = JsonStringify(last.device)
            /\ last.device.updatedAt = clock
            /\ last.device.createdAt = last.device.updatedAt)

\* C17: every write that reached the store (create, full update,
\* content-only update) stores as updatedAt the instant of the request,
\* whatever updatedAt the body carries; and of two successive updates of
\* one key that both wrote, the second stores a later updatedAt than the
\* first.
C17_UpdatedAtStrictlyIncreases ==
    [][/\ last'.putOk
          => JsonParse(store'[last'.key]).updatedAt = clock
       /\ (/\ last.op = "PUT"
           /\ last.putOk
           /\ last'.op = "PUT"
           /\ last'.putOk
           /\ last'.key = last.key)
          => JsonParse(store'[last'.key]).updatedAt
                > JsonParse(store[last.key]).updatedAt]_vars

\* C18: deleteByOwner, keys.list succeeding, answers 200
\* bulk_delete_completed whatever deletes fail; the keys it reports are
\* those of the listing that held a readable device of the owner pair and
\* whose delete succeeded, the keys after a failed delete included; each
\* key reported has no value afterwards, and every other key, a key whose
\* delete failed among them, holds what it held and is not reported.
C18_BulkDeleteSkipsFailedDeletes ==
    [][(last'.op = "DELETE_BY_OWNER" /\ last'.listOk)
       => LET r == last'
              Deleted(k) == \E i \in 1..Len(r.deletedKeys) : r.deletedKeys[i] = k
          IN  /\ r.status = 200
              /\ r.type = "bulk_delete_completed"
              /\ r.deletedKeys =
                    SelectSeq(KvList(store),
                              LAMBDA k : /\ k \notin r.readFail
                                         /\ k \notin r.delFail
                                         /\ HoldsDeviceOf(store[k], r.owner, r.ownerKey))
              /\ \A k \in StoreKeys :
                    IF Deleted(k)
                    THEN store[k] # Absent /\ store'[k] = Absent
                    ELSE store'[k] = store[k]]_vars

\* A bulk delete whose first delete failed has deleted the next matching
\* key and reports it alone; the first key still holds its device.
C18_Witness ==
    /\ last.op = "DELETE_BY_OWNER"
    /\ last.delFail = {IdA}
    /\ last.deletedKeys = <<IdC>>
    /\ HoldsDeviceOf(store[IdA], last.owner, last.ownerKey)
    /\ store[IdC] = Absent

\* C19: a PUT whose write reached the store is answered 200 device_updated
\* whether or not its notification call has returned.
C19_ResponseDoesNotWaitForNotification ==
    (last.op = "PUT" /\ last.putOk)
        => (last.status = 200 /\ last.type = "device_updated")

\* C20: a create or full-update body {key, value, ttl} whose ttl is below
\* 60 or above 31,536,000 is answered 400 with the list of violations, no
\* put is issued and the store stays as it was; with a ttl inside the
\* range (key and value being valid) it is not answered 400, and the put
\* it issues carries the ttl as expiration_ttl.
C20_TtlRangeIsEnforced ==
    [][(/\ last'.op \in {"POST", "PUT"}
        /\ last'.shape = "value"
        /\ last'.body.ttl # NoTtl)
       => LET r == last'
              ttl == r.body.ttl
          IN  IF ttl < MinTtl \/ ttl > MaxTtl
              THEN /\ r.status = 400
                   /\ r.details = "list"
                   /\ ~r.putIssued
                   /\ store' = store
              ELSE (KeyValid(r.body.key) /\ DeviceValid(r.body.value))
                    => (/\ r.status # 400
                        /\ r.putIssued => r.putTtl = ttl)]_vars

\* A full update has written with the largest ttl of the range.
C20_Witness ==
    /\ last.op = "PUT"
    /\ last.body.ttl = MaxTtl
    /\ last.putOk
    /\ last.putTtl = MaxTtl

\* A create with a ttl one above the range has been answered 400.
C20_WitnessRejected ==
    /\ last.op = "POST"
    /\ last.body.ttl = MaxTtl + 1
    /\ last.status = 400

\* C21: PUT goes by the shape of its body alone.  A body that passes the
\* content-only schema is handled as a content-only update, whose outcome
\* stands: it is never written as a full update nor answered 400.  Only a
\* body that fails the content-only schema is handled as a full update.  A
\* body that passes neither schema is answered 400 and nothing is written.
C21_PutClassifiesByShape ==
    [][(last'.op = "PUT")
       => LET r == last'
          IN  /\ UpdateDeviceContentRequestValid(r.body)
                    => (/\ r.asContent
                        /\ r.path # "full"
                        /\ r.status # 400)
              /\ r.path = "full" => ~UpdateDeviceContentRequestValid(r.body)
              /\ (/\ ~UpdateDeviceContentRequestValid(r.body)
                  /\ ~UpdateDeviceRequestValid(r.body))
                    => (/\ r.status = 400
                        /\ ~r.putIssued
                        /\ store' = store)]_vars

\* C22: when a Gateway call on the way of an operation on one record fails
\* in transport (the read of get-one, of create's existence check, of the
\* content-only update or of delete-one; the put; the delete), the answer is
\* 500, and after a failed read neither a put nor a delete is issued, so
\* the store is as it was.
C22_TransportFailureIs500 ==
    [][(last'.op \in {"GET_ONE", "POST", "PUT", "DELETE"})
       => LET r == last'
              gw == asked'[2]
              readFailed ==
                  \/ r.op \in {"GET_ONE", "DELETE"} /\ r.getFail
                  \/ /\ r.op = "POST"
                     /\ CreateDeviceRequestValid(r.body)
                     /\ gw.gets[1] = "fail"
                  \/ /\ r.op = "PUT"
                     /\ UpdateDeviceContentRequestValid(r.body)
                     /\ gw.gets[1] = "fail"
              writeFailed ==
                  \/ r.putIssued /\ ~r.putOk
                  \/ r.delIssued /\ r.delFail # {}
          IN  /\ (readFailed \/ writeFailed) => r.status = 500
              /\ readFailed => (/\ ~r.putIssued
                                /\ ~r.delIssued
                                /\ store' = store)]_vars

\* What a request was answered: the status and the body of the response.
Answer(r) ==
    <<r.status, r.type, r.error, r.details, r.device, r.devices, r.count,
      r.deletedKeys>>

\* The key has a non-empty value that is not a record: it does not parse,
\* or the object fails DeviceSchema.
Malformed(text) == NonEmpty(text) /\ ~IsDevice(text)

\* C23: a create, an update or a delete-one of a key whose stored value is
\* non-empty but does not parse or fails the Device schema answers, and
\* leaves the store, as the same request with the same Gateway behaviour
\* does on the store where that key holds nothing.
C23_MalformedValueIsAbsent ==
    [][(/\ last'.op \in {"POST", "PUT", "DELETE"}
        /\ last'.key \in StoreKeys
        /\ Malformed(store[last'.key]))
       => LET bare == [store EXCEPT ![last'.key] = Absent]
              rq == asked'[1]
              gw == asked'[2]
              r == CASE last'.op = "POST" ->
                            PostHandler(bare, rq, gw.gets[1], gw.put, clock)
                     [] last'.op = "PUT" ->
                            PutHandler(bare, rq, gw.gets, gw.put, gw.notify, clock)
                     [] OTHER ->
                            DeleteHandler(bare, rq.key, rq.owner, rq.ownerKey,
                                rq.deleteAll, gw.listOk, gw.readFail, gw.delFail,
                                gw.gets[1],
                                IF rq.key \in gw.delFail THEN "fail" ELSE "ok")
          IN  /\ Answer(last') = Answer(r.resp)
              /\ store' = r.st]_vars

\* C24: get-one, delete-one and the content-only update of a key that has
\* no value, or whose value is the empty string, answer 404 and leave the
\* store as it was, the read not failing in transport.
C24_AbsentAndEmptyAreNotFound ==
    [][(/\ \/ last'.op \in {"GET_ONE", "DELETE"}
           \/ /\ last'.op = "PUT"
              /\ UpdateDeviceContentRequestValid(last'.body)
              /\ ~UpdateDeviceRequestValid(last'.body)
        /\ last'.key \in StoreKeys
        /\ asked'[2].gets[1] = "ok"
        /\ NoRecord(store[last'.key]))
       => (/\ last'.status = 404
           /\ store' = store)]_vars

\* C26: every value a POST or a PUT writes to the store is a device: it
\* passes DeviceSchema, and its ownerKey matches dot_app_ followed by 64
\* alphanumerics.
C26_WritesAreValidDevices ==
    [][(/\ last'.op \in {"POST", "PUT"}
        /\ last'.putIssued
        /\ last'.putOk)
       => (/\ IsDevice(store'[last'.key])
           /\ MatchesApiKey(JsonParse(store'[last'.key]).ownerKey))]_vars

\* The store where the object under the key, if there is one, has the owner
\* pair id.
OwnedBy(st, key, id) ==
    IF JsonParses(st[key])
    THEN [st EXCEPT ![key] = JsonStringify([JsonParse(st[key]) EXCEPT
                                                !.owner = id[1], !.ownerKey = id[2]])]
    ELSE st

\* C28: a create, an update or a delete-one never compares an owner or
\* ownerKey of the caller (those of the body's value, those of the query)
\* with those of the stored record.  The request has the status, makes the
\* calls and leaves the store (but for the owner pair a content-only update
\* keeps) that it has when the stored record carries the caller's own owner
\* pair; a full update whose put succeeds leaves the owner pair of its body
\* in the store; and delete-one answers and acts as it does for a query
\* that carries no owner.
C28_SingleKeyMutationsIgnoreOwner ==
    [][(/\ last'.op \in {"POST", "PUT", "DELETE"}
        /\ last'.key \in StoreKeys
        /\ JsonParses(store[last'.key]))
       => LET r == last'
              k == r.key
              rq == asked'[1]
              gw == asked'[2]
              caller == IF r.op = "DELETE" THEN <<rq.owner, rq.ownerKey>>
                        ELSE IF r.shape \in {"value", "both"}
                        THEN <<rq.value.owner, rq.value.ownerKey>>
                        ELSE <<"bob", ApiKeyA>>
              own == OwnedBy(store, k, caller)
              AsOwner ==
                  CASE r.op = "POST" ->
                          PostHandler(own, rq, gw.gets[1], gw.put, clock)
                    [] r.op = "PUT" ->
                          PutHandler(own, rq, gw.gets, gw.put, gw.notify, clock)
                    [] OTHER ->
                          DeleteOne(own, k, gw.gets[1],
                                    IF k \in gw.delFail THEN "fail" ELSE "ok")
          IN  /\ \A o \in {AsOwner} :
                    /\ o.resp.status = r.status
                    /\ o.resp.type = r.type
                    /\ o.resp.putIssued = r.putIssued
                    /\ o.resp.delIssued = r.delIssued
                    /\ OwnedBy(o.st, k, caller) = OwnedBy(store', k, caller)
              /\ (r.op = "PUT" /\ r.path = "full" /\ r.putOk)
                    => (/\ JsonParses(store'[k])
                        /\ JsonParse(store'[k]).owner = rq.value.owner
                        /\ JsonParse(store'[k]).ownerKey = rq.value.ownerKey)
              /\ r.op = "DELETE"
                    => LET d == DeleteHandler(store, k, Undefined, Undefined,
                                    rq.deleteAll, gw.listOk, gw.readFail,
                                    gw.delFail, gw.gets[1],
                                    IF k \in gw.delFail THEN "fail" ELSE "ok")
                       IN  d.resp = r /\ d.st = store']_vars

\* A full update has replaced the record of one owner by that of another.
C28_Witness ==
    /\ last.op = "PUT"
    /\ last.path = "full"
    /\ last.status = 200
    /\ last.gotOwner = <<"alice", ApiKeyA>>
    /\ IsDevice(store[last.key])
    /\ JsonParse(store[last.key]).owner = "bob"
    /\ JsonParse(store[last.key]).ownerKey = ApiKeyB

\* A delete-one whose query carries the owner pair of another owner has
\* removed the record.
C28_WitnessDelete ==
    /\ last.op = "DELETE"
    /\ last.status = 200
    /\ last.gotOwner = <<"alice", ApiKeyA>>
    /\ asked[1].owner = "bob"
    /\ asked[1].ownerKey = ApiKeyB
    /\ store[last.key] = Absent

\* The query parameter was given and is not the empty string.
Given(param) == param \notin {Undefined, ""}

\* C29: a GET whose query carries a non-empty owner and a non-empty
\* ownerKey lists by owner, also when it carries a key; any other GET
\* without a key lists the devices of every owner, also when it carries one
\* of owner and ownerKey; any other GET gets the one device of its key.
\* The answer is that of the one operation: devices_by_owner with devices
\* of that owner pair only, all_devices, or the answer for the key.
C29_GetDispatchPrecedence ==
    (last.op \in {"GET_BY_OWNER", "GET_ALL", "GET_ONE"})
    => LET q == asked[1]
       IN  /\ (Given(q.owner) /\ Given(q.ownerKey))
                => (/\ last.op = "GET_BY_OWNER"
                    /\ last.status = 200 => last.type = "devices_by_owner"
                    /\ \A i \in 1..Len(last.devices) :
                          /\ last.devices[i].owner = q.owner
                          /\ last.devices[i].ownerKey = q.ownerKey)
           /\ (~(Given(q.owner) /\ Given(q.ownerKey)) /\ ~Given(q.key))
                => (/\ last.op = "GET_ALL"
                    /\ last.status = 200 => last.type = "all_devices")
           /\ (~(Given(q.owner) /\ Given(q.ownerKey)) /\ Given(q.key))
                => (/\ last.op = "GET_ONE"
                    /\ last.key = q.key
                    /\ last.devices = <<>>
                    /\ last.status = 200 => last.type = "device_details")

\* A GET with a key, an owner and an ownerKey has listed by owner.
C29_Witness ==
    /\ last.op = "GET_BY_OWNER"
    /\ Given(asked[1].key)
    /\ last.status = 200
    /\ Len(last.devices) > 0

\* A GET with an owner, no ownerKey and no key has listed the devices of
\* more than one owner.
C29_WitnessOneOfPair ==
    /\ last.op = "GET_ALL"
    /\ Given(asked[1].owner)
    /\ ~Given(asked[1].ownerKey)
    /\ last.status = 200
    /\ \E i, j \in 1..Len(last.devices) :
          last.devices[i].owner # last.devices[j].owner

\* C25: two creates of one key that had no value can both be answered 200
\* device_created; the key then holds the one value of the put that
\* reached the store last, whichever create made it.
C25_LastCreateWins ==
    /\ \A p \in Creators :
          procs[p].status = 200
              => (/\ procs[p].type = "device_created"
                  /\ procs[p].seen.kind \in {"absent", "empty"})
    /\ writer \in Creators
          => (/\ procs[writer].status = 200
              /\ store[WriteKey] = JsonStringify(procs[writer].device))

\* Both creates were answered device_created, for different devices; the
\* key holds the device of the second put.
C25_Witness ==
    /\ \A p \in Creators : procs[p].status = 200 /\ procs[p].type = "device_created"
    /\ procs["c1"].device # procs["c2"].device
    /\ writer \in Creators
    /\ store[WriteKey] = JsonStringify(procs[writer].device)

\* C27: the bulk delete for an owner pair deletes a key only if the record
\* the key holds at the moment of the delete is a device of that owner
\* pair, whatever other requests wrote since the scan read the key.
C27_DeletesOnlyCurrentOwner ==
    [][(procs'[Deleter].deletedKeys # procs[Deleter].deletedKeys)
       => HoldsDeviceOf(store[procs[Deleter].keys[procs[Deleter].i]],
                        RaceOwner[1], RaceOwner[2])]_vars

\* C27, as the code has it: the bulk delete for an owner pair deletes a key
\* only if the text its own scan read under the key was a device of that
\* owner pair; it does not see what other requests wrote to the key between
\* that read and the delete, and the delete leaves the key without a value.
C27_DeletesWhatItReadAsOwners ==
    [][(procs'[Deleter].deletedKeys # procs[Deleter].deletedKeys)
       => (/\ HoldsDeviceOf(procs[Deleter].seen, RaceOwner[1], RaceOwner[2])
           /\ store'[procs[Deleter].keys[procs[Deleter].i]] = Absent
           /\ procs'[Deleter].deletedKeys
                = Append(procs[Deleter].deletedKeys,
                         procs[Deleter].keys[procs[Deleter].i]))]_vars

\* The bulk delete has removed a record written after its read of the key:
\* it read a device of its owner pair and removed that of another owner.
C27_Witness ==
    /\ procs[Deleter].deletedKeys # <<>>
    /\ HoldsDeviceOf(procs[Deleter].seen, RaceOwner[1], RaceOwner[2])
    /\ HoldsDeviceOf(procs[Deleter].gone, "bob", ApiKeyB)

\* C30: in useDevices and useUserDevices, once every fetch that was started
\* has settled, devices is what the fetch started last has set, not what an
\* earlier fetch has; and loading is false only while no fetch is in
\* flight.
C30_LastFetchWins ==
    /\ (ui.started > 0 /\ ui.flight = {}) => ui.shown = ui.started
    /\ ~ui.loading => ui.flight = {}

====
